---- MODULE Spec2Model ----
(***************************************************************************)
(* Palpiteiro web-app (src/app.py): one render of the page.  The main      *)
(* routine requests a line up, lays it out, fetches every player's photo   *)
(* and club badge on a thread pool and composes the figure that is shown.  *)
(*                                                                         *)
(* Numbers with a fractional part are kept in thousandths (0.15 is 150).   *)
(***************************************************************************)
EXTENDS Integers, Sequences, FiniteSets, TLC

\* ------------------------------------------------------------------ bounds

\* Largest number of rows (players and bench together) in a response.
MaxPlayers == 3
\* Largest number of requests posted by the renders of one process.
MaxRenders == 3

\* --------------------------------------------------------- program constants

DEFAULT_SCHEME ==
    [goalkeeper |-> 1, fullback |-> 2, defender |-> 2,
     midfielder |-> 3, forward |-> 3, coach |-> 1]
MAX_PLAYERS_PER_CLUB == 5
ERROR_MSG == "Sorry, something went wrong. Please try again later."
\* ThreadPoolExecutor(5)
PoolSize == 5
\* requests.post(..., timeout=30)
PostTimeout == 30

\* ------------------------------------------------------------ input families

Games == {"Cartola", "Cartola Express"}
StatusCodes == {200, 300, 404}
Statuses == {"SUCCEEDED", "FAILED"}
PlayerIds == {100 + k : k \in 1..MaxPlayers}
PlayerNames == <<"Ana", "Bia", "Caio", "Duda", "Enzo", "Fabi", "Gil", "Hugo">>
\* What a download meets, and what the bytes of a served stream are.
Reaches == {"served", "unreachable"}
Bytes == {"image", "corrupt"}

\* A row of the response: the fields the program reads.
RawRow(id, position, points) ==
    [id |-> id, name |-> PlayerNames[id - 100], position |-> position,
     points |-> points, price |-> id - 90,
     photo |-> [kind |-> "photo", id |-> id],
     club_badge |-> [kind |-> "badge", id |-> id]]

Range(s) == {s[i] : i \in DOMAIN s}

\* Sequences without repetition over S, of length at most n.
RECURSIVE Arrangements(_, _)
Arrangements(S, n) ==
    IF n = 0 THEN {<<>>}
    ELSE {<<>>} \cup
         UNION {{<<x>> \o t : t \in Arrangements(S \ {x}, n - 1)} : x \in S}

\* The rows of the ids of the sequence a, each with the position and the
\* points that f gives to its id.
Rows(a, f) == [i \in DOMAIN a |-> RawRow(a[i], f[a[i]][1], f[a[i]][2])]

Min(m, n) == IF m < n THEN m ELSE n

\* The decoded "output" of a response: two collections of rows, the ids in
\* one of the given orders, the first k of them in "players".
OutputsOver(orders, positions, points) ==
    {[players |-> SubSeq(Rows(a, f), 1, Min(k, Len(a))),
      bench |-> SubSeq(Rows(a, f), Min(k, Len(a)) + 1, Len(a))] :
        a \in orders, k \in 0..MaxPlayers,
        f \in [PlayerIds -> positions \X points]}

\* The ids of a response: no id twice, in any order.
Orders == Arrangements(PlayerIds, MaxPlayers) \ {<<>>}
AscendingOrders ==
    {a \in Orders : \A i, j \in DOMAIN a : i < j => a[i] < a[j]}

Outputs(positions, points) == OutputsOver(Orders, positions, points)

\* Before the response: nothing received.
NoResponse ==
    [status_code |-> 0, status |-> "", output |-> [players |-> <<>>, bench |-> <<>>]]

Responses(outs) ==
    {[status_code |-> c, status |-> s, output |-> o] :
        c \in StatusCodes, s \in Statuses, o \in outs}

\* ------------------------------------------------------------ pure functions

\* pd.concat([players, bench]) after the two "type" assignments.
Concat(out) ==
    [i \in 1..(Len(out.players) + Len(out.bench)) |->
        IF i <= Len(out.players)
        THEN out.players[i] @@ [type |-> "players"]
        ELSE out.bench[i - Len(out.players)] @@ [type |-> "bench"]]

\* data.groupby(["position", "type"])["id"].rank().astype(int) for row i:
\* the average of the places the row's id takes in its group, truncated.
GroupOf(d, i) ==
    {j \in DOMAIN d : d[j].position = d[i].position /\ d[j].type = d[i].type}

\* Rank with the places taken by points instead of id.
RankByPoints(d, i) ==
    LET less == Cardinality({j \in GroupOf(d, i) : d[j].points < d[i].points})
        same == Cardinality({j \in GroupOf(d, i) : d[j].points = d[i].points})
    IN  (2 * less + same + 1) \div 2

\* Rank with rank(ascending=False).
RankDescending(d, i) ==
    LET more == Cardinality({j \in GroupOf(d, i) : d[j].id > d[i].id})
        same == Cardinality({j \in GroupOf(d, i) : d[j].id = d[i].id})
    IN  (2 * more + same + 1) \div 2

Rank(d, i) ==
    LET less == Cardinality({j \in GroupOf(d, i) : d[j].id < d[i].id})
        same == Cardinality({j \in GroupOf(d, i) : d[j].id = d[i].id})
    IN  (2 * less + same + 1) \div 2

\* f'{x["type"]}-{x["position"]}-{x["rank"]}': the three parts of the key.
PlotKey(type, position, rank) == <<type, position, rank>>

\* The table of pos.json: one entry for every place of the formation and
\* one place on the bench for every position.
PosCapacity(type, position) ==
    IF type = "players" THEN DEFAULT_SCHEME[position] ELSE 1

pos ==
    LET keys == {PlotKey(t, p, r) : t \in {"players", "bench"},
                                     p \in DOMAIN DEFAULT_SCHEME, r \in 1..3}
        col(p) == CASE p = "goalkeeper" -> 0 [] p = "fullback" -> 1
                    [] p = "defender" -> 2 [] p = "midfielder" -> 3
                    [] p = "forward" -> 4 [] OTHER -> 5
    IN  [k \in {q \in keys : q[3] <= PosCapacity(q[1], q[2])} |->
            IF k[1] = "players"
            THEN [x |-> 250 * k[3], y |-> 100 + 150 * col(k[2])]
            ELSE [x |-> 100 + 150 * col(k[2]), y |-> -150]]

Ranked(d) ==
    [i \in DOMAIN d |->
        LET r == Rank(d, i)
        IN  d[i] @@ [rank |-> r, plot |-> PlotKey(d[i].type, d[i].position, r)]]

MissingKeys(d) == {i \in DOMAIN d : d[i].plot \notin DOMAIN pos}

\* The largest points of the rows of type "players" alone (of all the rows
\* when there is none).
MaxPointsOfPlayers(d) ==
    LET own == {i \in DOMAIN d : d[i].type = "players"}
        rows == IF own = {} THEN DOMAIN d ELSE own
    IN  CHOOSE m \in {d[i].points : i \in rows} :
            \A i \in rows : d[i].points <= m

MaxPoints(d) ==
    CHOOSE m \in {d[i].points : i \in DOMAIN d} :
        \A i \in DOMAIN d : d[i].points <= m

\* transform_data, lines 84-95, when every key is in the table.
Placed(d, captain, table) ==
    [i \in DOMAIN d |->
        LET at == table[d[i].plot]
            row == d[i] @@ [x |-> at.x, y |-> at.y,
                            badge_x |-> at.x + 25, badge_y |-> at.y - 75]
        IN  IF captain
            THEN LET c == (row.points = MaxPoints(d))
                 IN  [row EXCEPT !.name = IF c THEN "(C) " \o @ ELSE @]
                        @@ [captain |-> c]
            ELSE row]

\* An entry of fig.layout.images.
LayoutImage(source, xref, x, y, size, xanchor, yanchor, layer, sizing) ==
    [source |-> source, xref |-> xref, yref |-> "y", x |-> x, y |-> y,
     sizex |-> size, sizey |-> size, xanchor |-> xanchor, yanchor |-> yanchor,
     layer |-> layer, sizing |-> sizing]

\* The go.Scatter trace of one player.
Scatter(x, y, name, price) ==
    [x |-> x, y |-> y, mode |-> "markers+text", size |-> 50,
     color |-> "rgba(0,0,0,0)", text |-> name,
     textposition |-> "bottom center", hover |-> price]

\* Image.open on a downloaded stream raises UnidentifiedImageError unless
\* the stream holds an image.  A stream that was read once holds nothing
\* more; the only stream opened twice is a club badge that already failed.
Decodable(stream) == stream.bytes = "image"

AddImage(f, img) == [f EXCEPT !.images = Append(@, img)]
AddTrace(f, tr) == [f EXCEPT !.traces = Append(@, tr)]

\* add_player_image whose handler first takes the last image off the figure.
add_player_image_pop(f, x, y, name, photo, logo, price) ==
    LET big(src) == LayoutImage(src, "x", x, y, 150, "center", "middle",
                                "above", "contain")
        small(src) == LayoutImage(src, "x", x + 10, y - 15, 75, "left", "top",
                                  "above", "contain")
        done(g) == [fig |-> AddTrace(g, Scatter(x, y, name, price)),
                    raised |-> FALSE]
        popped == [f EXCEPT !.images = SubSeq(@, 1, Len(@) - 1)]
    IN  IF Decodable(photo)
        THEN LET f1 == AddImage(f, big(photo.url))
             IN  IF Decodable(logo)
                 THEN done(AddImage(f1, small(logo.url)))
                 ELSE [fig |-> f1, raised |-> TRUE]
        ELSE IF Decodable(logo)
             THEN done(AddImage(popped, big(logo.url)))
             ELSE [fig |-> f, raised |-> TRUE]

\* add_player_image whose handler places the badge as the try block does.
add_player_image_small(f, x, y, name, photo, logo, price) ==
    LET big(src) == LayoutImage(src, "x", x, y, 150, "center", "middle",
                                "above", "contain")
        small(src) == LayoutImage(src, "x", x + 10, y - 15, 75, "left", "top",
                                  "above", "contain")
        done(g) == [fig |-> AddTrace(g, Scatter(x, y, name, price)),
                    raised |-> FALSE]
    IN  IF Decodable(photo)
        THEN LET f1 == AddImage(f, big(photo.url))
             IN  IF Decodable(logo)
                 THEN done(AddImage(f1, small(logo.url)))
                 ELSE [fig |-> f1, raised |-> TRUE]
        ELSE IF Decodable(logo)
             THEN done(AddImage(f, small(logo.url)))
             ELSE [fig |-> f, raised |-> TRUE]

\* add_player_image with fig.add_trace at the end of the try block.
add_player_image_trace_in_try(f, x, y, name, photo, logo, price) ==
    LET big(src) == LayoutImage(src, "x", x, y, 150, "center", "middle",
                                "above", "contain")
        small(src) == LayoutImage(src, "x", x + 10, y - 15, 75, "left", "top",
                                  "above", "contain")
        done(g) == [fig |-> AddTrace(g, Scatter(x, y, name, price)),
                    raised |-> FALSE]
    IN  IF Decodable(photo)
        THEN LET f1 == AddImage(f, big(photo.url))
             IN  IF Decodable(logo)
                 THEN done(AddImage(f1, small(logo.url)))
                 ELSE [fig |-> f1, raised |-> TRUE]
        ELSE IF Decodable(logo)
             THEN [fig |-> AddImage(f, big(logo.url)), raised |-> FALSE]
             ELSE [fig |-> f, raised |-> TRUE]

\* add_player_image with a broader except clause that passes over a badge
\* that does not decode.
add_player_image_quiet(f, x, y, name, photo, logo, price) ==
    LET big(src) == LayoutImage(src, "x", x, y, 150, "center", "middle",
                                "above", "contain")
        small(src) == LayoutImage(src, "x", x + 10, y - 15, 75, "left", "top",
                                  "above", "contain")
        done(g) == [fig |-> AddTrace(g, Scatter(x, y, name, price)),
                    raised |-> FALSE]
    IN  IF Decodable(photo)
        THEN LET f1 == AddImage(f, big(photo.url))
             IN  IF Decodable(logo)
                 THEN done(AddImage(f1, small(logo.url)))
                 ELSE done(f1)
        ELSE IF Decodable(logo)
             THEN done(AddImage(f, big(logo.url)))
             ELSE done(f)

\* add_player_image: the figure it leaves and whether an exception escapes.
add_player_image(f, x, y, name, photo, logo, price) ==
    LET big(src) == LayoutImage(src, "x", x, y, 150, "center", "middle",
                                "above", "contain")
        small(src) == LayoutImage(src, "x", x + 10, y - 15, 75, "left", "top",
                                  "above", "contain")
        done(g) == [fig |-> AddTrace(g, Scatter(x, y, name, price)),
                    raised |-> FALSE]
    IN  IF Decodable(photo)
        THEN LET f1 == AddImage(f, big(photo.url))
             IN  IF Decodable(logo)
                 THEN done(AddImage(f1, small(logo.url)))
                 ELSE [fig |-> f1, raised |-> TRUE]
        ELSE IF Decodable(logo)
             THEN done(AddImage(f, big(logo.url)))
             ELSE [fig |-> f, raised |-> TRUE]

\* session.get(url, stream=True).raw: the open stream of the response, on
\* the session it was asked on; its bytes are read when the image is opened.
download_image(url, session) == [stream |-> url, session |-> session]

\* One session of the module for every call.
SharedSession(row) == <<"session", 0>>

\* requests.session() in transform_row: a session of this call alone.
NewSession(row) == <<"session", row.id>>

\* transform_row with the badge downloaded from the URL of the photo.
transform_row_photo_twice(row, reach) ==
    LET session == NewSession(row)
    IN  IF reach[row.photo] = "unreachable"
        THEN [raised |-> TRUE, url |-> row.photo, row |-> row]
        ELSE [raised |-> FALSE, url |-> row.photo,
              row |-> [row EXCEPT !.photo = download_image(@, session),
                                  !.club_badge = download_image(row.photo, session)]]

\* transform_row: the row it returns, or the URL whose download raised;
\* reach is what the downloads of the two URLs of the row meet.
transform_row(row, reach) ==
    LET session == NewSession(row)
    IN  IF reach[row.photo] = "unreachable"
        THEN [raised |-> TRUE, url |-> row.photo, row |-> row]
        ELSE LET r1 == [row EXCEPT !.photo = download_image(@, session)]
             IN  IF reach[row.club_badge] = "unreachable"
                 THEN [raised |-> TRUE, url |-> row.club_badge, row |-> r1]
                 ELSE [raised |-> FALSE, url |-> row.club_badge,
                       row |-> [r1 EXCEPT !.club_badge =
                                    download_image(@, session)]]

\* ------------------------------------------------------------------- state

VARIABLES
    pc,        \* where the main routine is
    game,      \* the game sent to the service ("" before the selection)
    SCHEME,    \* the module-level SCHEME dictionary
    api,       \* the response of the line up service
    storage,   \* what the asset storage has answered, by URL
    posted,    \* the bodies of the requests posted to the service
    data,      \* the data frame of the main routine, a sequence of rows
    fig,       \* the figure
    futures,   \* the futures of the executor, in submission order
    max_workers, \* the size of the pool of the executor (0: no executor)
    shown,     \* what the routine has put on the page
    exc        \* the exception that left the main routine (<<>>: none)

vars == <<pc, game, SCHEME, api, storage, posted, data, fig, futures,
          max_workers, shown, exc>>

NoFigure == [images |-> <<>>, traces |-> <<>>, height |-> 0]

Init ==
    /\ pc = "select"
    /\ game = ""
    /\ SCHEME = DEFAULT_SCHEME
    /\ api = NoResponse
    /\ storage = <<>>
    /\ posted = <<>>
    /\ data = <<>>
    /\ fig = NoFigure
    /\ futures = <<>>
    /\ max_workers = 0
    /\ shown = <<>>
    /\ exc = <<>>

\* ----------------------------------------------------------------- actions

\* main, lines 170-204: the sidebar selection.  The inputs of the sidebar
\* widgets are left at their defaults.
SelectGame(g) ==
    /\ pc = "select"
    /\ game' = IF g = "Cartola" THEN "cartola" ELSE "cartola-express"
    /\ SCHEME' = IF g = "Cartola Express"
                 THEN [SCHEME EXCEPT !.coach = 0] ELSE SCHEME
    /\ pc' = "get_line_up"
    /\ UNCHANGED <<api, storage, posted, data, fig, futures, shown, exc,
                   max_workers>>

Body ==
    [game |-> game, scheme |-> SCHEME,
     price |-> IF game = "cartola" THEN 100000 ELSE 140000,
     max_players_per_club |-> MAX_PLAYERS_PER_CLUB,
     bench |-> (game = "cartola"), dropout |-> 0, date |-> "None",
     timeout |-> PostTimeout]

\* The checks of get_line_up with > in place of >=.
FailedAbove(res) == res.status_code > 300 \/ res.status /= "SUCCEEDED"

\* The two checks of get_line_up on the response.
Failed(res) == res.status_code >= 300 \/ res.status /= "SUCCEEDED"

\* get_line_up: one post, st.error and st.stop on a failure.  The service
\* answers with one of the responses of outs.
GetLineUp(outs) ==
    /\ pc = "get_line_up"
    /\ posted' = Append(posted, Body)
    /\ \E res \in Responses(outs) :
          /\ api' = res
          /\ IF Failed(res)
             THEN /\ shown' = Append(shown, ERROR_MSG)
                  /\ pc' = "stopped"
                  /\ data' = data
             ELSE /\ data' = Concat(res.output)
                  /\ pc' = "transform_data"
                  /\ shown' = shown
    /\ UNCHANGED <<game, SCHEME, storage, fig, futures, exc, max_workers>>

\* transform_data with pos.get(x, ...) and a default place for a key that
\* is not in the table.
TransformDataDefault ==
    /\ pc = "transform_data"
    /\ LET d == Ranked(data)
           table == [k \in {d[i].plot : i \in DOMAIN d} |->
                       IF k \in DOMAIN pos THEN pos[k] ELSE [x |-> 0, y |-> 0]]
       IN  /\ data' = Placed(d, game = "cartola", table)
           /\ pc' = "figure"
           /\ exc' = exc
    /\ UNCHANGED <<game, SCHEME, api, storage, posted, fig, futures, shown,
                   max_workers>>

\* transform_data: pos[x] raises KeyError(x) for the first row, in frame
\* order, whose key is not in the table.
TransformData ==
    /\ pc = "transform_data"
    /\ LET d == Ranked(data)
           missing == MissingKeys(d)
       IN  IF missing /= {}
           THEN LET first == CHOOSE i \in missing : \A j \in missing : i <= j
                IN  /\ exc' = <<"KeyError", d[first].plot>>
                    /\ pc' = "crashed"
                    /\ data' = data
           ELSE /\ data' = Placed(d, game = "cartola", pos)
                /\ pc' = "figure"
                /\ exc' = exc
    /\ UNCHANGED <<game, SCHEME, api, storage, posted, fig, futures, shown,
                   max_workers>>

\* main, lines 221-234: the figure with the pitch as its background.
NewFigure ==
    /\ pc = "figure"
    /\ fig' = AddImage(NoFigure,
                       LayoutImage([kind |-> "pitch.png", id |-> 0], "paper", 0, 0, 1000,
                                   "left", "bottom", "below", "stretch"))
    /\ pc' = "submit"
    /\ UNCHANGED <<game, SCHEME, api, storage, posted, data, futures, shown, exc,
                   max_workers>>

\* main, lines 236-239: the executor of n workers and one future per row.
\* No worker step is visible to the main routine before as_completed, so
\* the submissions are one step.
Submit(n) ==
    /\ pc = "submit"
    /\ max_workers' = n
    /\ futures' = [i \in DOMAIN data |->
                     [state |-> "pending", row |-> data[i],
                      raised |-> FALSE, url |-> <<>>, yielded |-> FALSE]]
    /\ pc' = "as_completed"
    /\ UNCHANGED <<game, SCHEME, api, storage, posted, data, fig, shown, exc>>

PoolOpen == pc \in {"as_completed", "unwinding"}
Pending == {i \in DOMAIN futures : futures[i].state = "pending"}
Running == {i \in DOMAIN futures : futures[i].state = "running"}
Finished == {i \in DOMAIN futures : futures[i].state = "finished"}

\* StartTask with a thread for every work item, whatever the size of the pool.
StartTaskUnbounded(i) ==
    /\ PoolOpen
    /\ i \in DOMAIN futures
    /\ futures[i].state = "pending"
    /\ \A j \in 1..(i - 1) : futures[j].state /= "pending"
    /\ futures' = [futures EXCEPT ![i].state = "running"]
    /\ UNCHANGED <<pc, game, SCHEME, api, storage, posted, data, fig, shown, exc,
                   max_workers>>

\* A free worker takes the oldest pending work item.
StartTask(i) ==
    /\ PoolOpen
    /\ i \in DOMAIN futures
    /\ futures[i].state = "pending"
    /\ \A j \in 1..(i - 1) : futures[j].state /= "pending"
    /\ Cardinality(Running) < max_workers
    /\ futures' = [futures EXCEPT ![i].state = "running"]
    /\ UNCHANGED <<pc, game, SCHEME, api, storage, posted, data, fig, shown, exc,
                   max_workers>>

\* The worker runs transform_row to its end and sets the future.  A
\* download is served or fails; the badge is requested only after the photo
\* was served.
FinishTask(i) ==
    /\ PoolOpen
    /\ i \in Running
    /\ LET row == futures[i].row
       IN  \E reach \in [{row.photo, row.club_badge} -> Reaches] :
             LET r == transform_row(row, reach)
                 asked == IF reach[row.photo] = "unreachable"
                          THEN {row.photo} ELSE {row.photo, row.club_badge}
             IN  /\ futures' = [futures EXCEPT ![i].state = "finished",
                                                ![i].row = r.row,
                                                ![i].raised = r.raised,
                                                ![i].url = r.url]
                 /\ storage' = storage @@ [u \in asked |-> reach[u]]
    /\ UNCHANGED <<pc, game, SCHEME, api, posted, data, fig, shown, exc,
                   max_workers>>

\* The stream read by Image.open: the bytes the storage sends for it.
Opened(s, sent) == [url |-> s.stream, bytes |-> sent[s.stream]]

\* The loop of main with the exception of future.result() caught and the
\* future passed over.
ComposeSwallow(i) ==
    /\ pc = "as_completed"
    /\ i \in Finished
    /\ ~futures[i].yielded
    /\ futures' = [futures EXCEPT ![i].yielded = TRUE]
    /\ IF futures[i].raised
       THEN UNCHANGED <<exc, pc, fig, storage>>
       ELSE LET row == futures[i].row
            IN  \E sent \in [{row.photo.stream, row.club_badge.stream} -> Bytes] :
                  LET r == add_player_image(fig, row.x, row.y, row.name,
                                            Opened(row.photo, sent),
                                            Opened(row.club_badge, sent),
                                            row.price)
                  IN  /\ fig' = r.fig
                      /\ storage' = sent @@ storage
                      /\ exc' = IF r.raised
                                THEN <<"UnidentifiedImageError",
                                       row.club_badge.stream>>
                                ELSE exc
                      /\ pc' = IF r.raised THEN "unwinding" ELSE pc
    /\ UNCHANGED <<game, SCHEME, api, posted, data, shown, max_workers>>

\* main, lines 240-250: as_completed yields a finished future that it has
\* not yielded yet; future.result() re-raises what the task raised.  The
\* storage sends the bytes of the two streams when they are opened.
Compose(i) ==
    /\ pc = "as_completed"
    /\ i \in Finished
    /\ ~futures[i].yielded
    /\ futures' = [futures EXCEPT ![i].yielded = TRUE]
    /\ IF futures[i].raised
       THEN /\ exc' = <<"ConnectionError", futures[i].url>>
            /\ pc' = "unwinding"
            /\ fig' = fig
            /\ storage' = storage
       ELSE LET row == futures[i].row
            IN  \E sent \in [{row.photo.stream, row.club_badge.stream} -> Bytes] :
                  LET r == add_player_image(fig, row.x, row.y, row.name,
                                            Opened(row.photo, sent),
                                            Opened(row.club_badge, sent),
                                            row.price)
                  IN  /\ fig' = r.fig
                      /\ storage' = sent @@ storage
                      /\ exc' = IF r.raised
                                THEN <<"UnidentifiedImageError",
                                       row.club_badge.stream>>
                                ELSE exc
                      /\ pc' = IF r.raised THEN "unwinding" ELSE pc
    /\ UNCHANGED <<game, SCHEME, api, posted, data, shown, max_workers>>

\* Unwind with executor.shutdown(wait=False): the exception goes on while
\* work items are still running.
UnwindNoWait ==
    /\ pc = "unwinding"
    /\ pc' = "crashed"
    /\ UNCHANGED <<game, SCHEME, api, storage, posted, data, fig, futures, shown, exc,
                   max_workers>>

\* The with block is left by an exception: the executor waits for every
\* work item before the exception goes on.
Unwind ==
    /\ pc = "unwinding"
    /\ Finished = DOMAIN futures
    /\ pc' = "crashed"
    /\ UNCHANGED <<game, SCHEME, api, storage, posted, data, fig, futures, shown, exc,
                   max_workers>>

\* main, lines 252-264: every future was yielded; the figure is shown.
Display ==
    /\ pc = "as_completed"
    /\ \A i \in DOMAIN futures : futures[i].yielded
    /\ fig' = [fig EXCEPT !.height = 450]
    /\ shown' = Append(shown, "plotly_chart")
    /\ pc' = "done"
    /\ UNCHANGED <<game, SCHEME, api, storage, posted, data, futures, exc,
                   max_workers>>

\* The line ups of the renders: midfielders, in the formation and on the
\* bench.
RenderOutputs == Outputs({"midfielder"}, {5})

Next ==
    \/ \E g \in Games : SelectGame(g)
    \/ GetLineUp(RenderOutputs)
    \/ TransformData
    \/ NewFigure
    \/ Submit(PoolSize)
    \/ \E i \in 1..MaxPlayers : StartTask(i)
    \/ \E i \in 1..MaxPlayers : FinishTask(i)
    \/ \E i \in 1..MaxPlayers : Compose(i)
    \/ Unwind
    \/ Display

Spec == Init /\ [][Next]_vars

\* The layout alone, over line ups of two positions and two scores.
LayoutOutputs == Outputs({"goalkeeper", "midfielder"}, {5, 9})

NextLayout ==
    \/ \E g \in Games : SelectGame(g)
    \/ GetLineUp(LayoutOutputs)
    \/ TransformData

SpecLayout == Init /\ [][NextLayout]_vars

\* ------------------------------------------------------------ the fetch phase

\* A line up of one row more than the pool has workers: midfielders and
\* forwards of the formation.
CrowdOutput ==
    [players |-> [k \in 1..(PoolSize + 1) |->
                    RawRow(100 + k, IF k <= 3 THEN "midfielder" ELSE "forward", 5)],
     bench |-> <<>>]

FetchOutputs == RenderOutputs \cup {CrowdOutput}

\* The render up to the end of the fetch tasks, with an executor of one
\* worker or of PoolSize workers.  The steps of the main routine after the
\* submissions leave the state, the row and the exception of every future
\* alone.
NextFetch ==
    \/ \E g \in Games : SelectGame(g)
    \/ GetLineUp(FetchOutputs)
    \/ TransformData
    \/ NewFigure
    \/ \E n \in {1, PoolSize} : Submit(n)
    \/ \E i \in DOMAIN futures : StartTask(i)
    \/ \E i \in DOMAIN futures : FinishTask(i)

SpecFetch == Init /\ [][NextFetch]_vars

\* The fetch phase on the executor of the program.  The main routine goes
\* on whenever it can and an idle worker takes the oldest pending work
\* item; nothing makes a download end: session.get has no timeout.
NextPool ==
    \/ \E g \in Games : SelectGame(g)
    \/ GetLineUp(FetchOutputs)
    \/ TransformData
    \/ NewFigure
    \/ Submit(PoolSize)
    \/ \E i \in DOMAIN futures : StartTask(i)
    \/ \E i \in DOMAIN futures : FinishTask(i)

MainStep ==
    \/ \E g \in Games : SelectGame(g)
    \/ GetLineUp(FetchOutputs)
    \/ TransformData
    \/ NewFigure
    \/ Submit(PoolSize)

SpecPool ==
    /\ Init /\ [][NextPool]_vars
    /\ WF_vars(MainStep)
    /\ WF_vars(\E i \in DOMAIN futures : StartTask(i))

\* The line ups of the renders whose rows come in ascending order of id.
SceneOutputs == OutputsOver(AscendingOrders, {"midfielder"}, {5})

\* The render with its scheduling: the main routine goes on whenever it
\* can (as_completed hands over a finished future) and an idle worker takes
\* the oldest pending work item; nothing makes a download end.
MainRender ==
    \/ \E g \in Games : SelectGame(g)
    \/ GetLineUp(SceneOutputs)
    \/ TransformData
    \/ NewFigure
    \/ Submit(PoolSize)
    \/ \E i \in DOMAIN futures : Compose(i)
    \/ Unwind
    \/ Display

NextRender ==
    \/ MainRender
    \/ \E i \in DOMAIN futures : StartTask(i)
    \/ \E i \in DOMAIN futures : FinishTask(i)

SpecRender ==
    /\ Init /\ [][NextRender]_vars
    /\ WF_vars(MainRender)
    /\ WF_vars(\E i \in DOMAIN futures : StartTask(i))

\* ------------------------------------------------------------- the reruns

\* A rerun that calls main again on the module as the last render left it.
RerunKeepModule ==
    /\ pc /= "select"
    /\ Len(posted) < MaxRenders
    /\ pc' = "select"
    /\ game' = ""
    /\ api' = NoResponse
    /\ storage' = <<>>
    /\ data' = <<>>
    /\ fig' = NoFigure
    /\ futures' = <<>>
    /\ max_workers' = 0
    /\ shown' = <<>>
    /\ exc' = <<>>
    /\ UNCHANGED <<SCHEME, posted>>

\* The next render of the page in the same process: the script is run
\* again from its first line, so the assignment of lines 17-24 gives SCHEME
\* its value anew before main is called (lines 267-268).  The requests
\* already posted stay with the service.
Rerun ==
    /\ pc /= "select"
    /\ Len(posted) < MaxRenders
    /\ pc' = "select"
    /\ SCHEME' = DEFAULT_SCHEME
    /\ game' = ""
    /\ api' = NoResponse
    /\ storage' = <<>>
    /\ data' = <<>>
    /\ fig' = NoFigure
    /\ futures' = <<>>
    /\ max_workers' = 0
    /\ shown' = <<>>
    /\ exc' = <<>>
    /\ UNCHANGED posted

\* Renders one after the other, up to the layout.
NextReruns ==
    \/ \E g \in Games : SelectGame(g)
    \/ GetLineUp(SceneOutputs)
    \/ TransformData
    \/ Rerun

SpecReruns == Init /\ [][NextReruns]_vars

\* ------------------------------------------------------------------ claims

Succeeded == api /= NoResponse /\ api.status_code < 300 /\ api.status = "SUCCEEDED"
Input == Concat(api.output)
ChartShown == "plotly_chart" \in Range(shown)
\* The futures whose row reached add_player_image.
Composed == {i \in DOMAIN futures : futures[i].yielded /\ ~futures[i].raised}
UrlsOf(i) == {futures[i].row.photo.stream, futures[i].row.club_badge.stream}
ImagesFrom(urls) == {k \in DOMAIN fig.images : fig.images[k].source \in urls}
TracesAt(x, y) == {k \in DOMAIN fig.traces : fig.traces[k].x = x /\ fig.traces[k].y = y}
TraceId(t) == data[CHOOSE i \in DOMAIN data : data[i].x = t.x /\ data[i].y = t.y].id
Background ==
    LayoutImage([kind |-> "pitch.png", id |-> 0], "paper", 0, 0, 1000, "left", "bottom",
                "below", "stretch")

\* C1: the hit-targets of the figure, in the order they were added, are in
\* ascending order of player id at every moment of every render.
C1_AscendingIdOrder ==
    \A a, b \in DOMAIN fig.traces :
        a < b => TraceId(fig.traces[a]) < TraceId(fig.traces[b])

\* The layers add_player_image puts on an empty figure for a row of the
\* frame, with the bytes the storage sent for its two URLs.
AloneLayers(row) ==
    add_player_image(NoFigure, row.x, row.y, row.name,
                     [url |-> row.photo, bytes |-> storage[row.photo]],
                     [url |-> row.club_badge, bytes |-> storage[row.club_badge]],
                     row.price).fig

\* C2: the set of images and the set of hit-targets of the figure that is
\* shown are those of the line up and the bytes served, whatever the order
\* in which the futures were yielded.
C2_LayerSetIndependentOfOrder ==
    pc = "done" =>
        /\ Range(fig.images) =
             {Background} \cup
             UNION {Range(AloneLayers(data[i]).images) : i \in DOMAIN data}
        /\ Range(fig.traces) =
             UNION {Range(AloneLayers(data[i]).traces) : i \in DOMAIN data}

\* C2 witness: a figure shown whose players were composed against the order
\* of their ids, one of them with the badge alone.
C2_Witness ==
    /\ pc = "done"
    /\ Len(fig.traces) >= 2
    /\ TraceId(fig.traces[1]) > TraceId(fig.traces[2])
    /\ \E u \in DOMAIN storage : storage[u] = "corrupt"

\* C3: whenever a row has reached add_player_image, every fetch task has
\* finished.
C3_ComposeAfterJoin == Composed /= {} => Finished = DOMAIN futures

\* C4: after the layout, in every (position, type) group the ranks are
\* 1..n, a smaller id has a smaller rank, and every permutation of the input
\* rows gives every id the same rank.
C4_DenseRanksById ==
    pc = "figure" =>
        /\ \A i \in DOMAIN data :
             /\ data[i].rank =
                  1 + Cardinality({j \in GroupOf(data, i) : data[j].id < data[i].id})
             /\ {data[j].rank : j \in GroupOf(data, i)} =
                  1..Cardinality(GroupOf(data, i))
        /\ \A p \in Permutations(DOMAIN Input) :
             LET d == Ranked([k \in DOMAIN Input |-> Input[p[k]]])
             IN  {<<d[k].id, d[k].rank>> : k \in DOMAIN d} =
                 {<<data[i].id, data[i].rank>> : i \in DOMAIN data}

\* C4 witness: a laid out group of three whose rows came against the order
\* of their ids and whose points are not in the order of the ids.
C4_Witness ==
    /\ pc = "figure"
    /\ \E i, j \in DOMAIN data :
         /\ i < j
         /\ j \in GroupOf(data, i)
         /\ data[i].id > data[j].id
         /\ data[i].points < data[j].points
         /\ Cardinality(GroupOf(data, i)) = 3

\* C5: when a plot-key of a line up received is not in the table, the
\* render ends in transform_data with a KeyError that names a missing key;
\* no row has a coordinate, no row is dropped, no task was submitted and
\* nothing was composed or shown.
C5_MissingKeyFailsFast ==
    LET d == Ranked(Input)
        missing == {d[i].plot : i \in DOMAIN d} \ DOMAIN pos
    IN  (Succeeded /\ missing /= {}) =>
            \/ pc = "transform_data"
            \/ /\ pc = "crashed"
               /\ Len(exc) = 2
               /\ exc[1] = "KeyError"
               /\ exc[2] \in missing
               /\ data = Input
               /\ fig = NoFigure
               /\ futures = <<>>
               /\ storage = <<>>
               /\ shown = <<>>

\* C5 witness: the layout ended with a KeyError.
C5_Witness == pc = "crashed" /\ Len(exc) = 2 /\ exc[1] = "KeyError"

\* C6: a figure is shown only in a render whose request succeeded, whose
\* plot-keys are all in the table and none of whose downloads failed.
C6_NoSceneAfterFailure ==
    ChartShown =>
        /\ api.status_code < 300
        /\ api.status = "SUCCEEDED"
        /\ \A i \in DOMAIN data : data[i].plot \in DOMAIN pos
        /\ \A u \in DOMAIN storage : storage[u] /= "unreachable"

\* C6 witness: a download failed after the layers of another player were
\* added to the figure, and the render ended with nothing shown.
C6_Witness ==
    /\ pc = "crashed"
    /\ Len(exc) = 2
    /\ exc[1] = "ConnectionError"
    /\ Len(fig.traces) >= 1
    /\ shown = <<>>

\* C7: no render posts twice; after a response with an HTTP status of 300
\* or more, or a status other than SUCCEEDED, the render has stopped with
\* the one generic message, one request posted, and no layout, task, figure
\* or download.
C7_RemoteFailureHalts ==
    /\ Len(posted) <= 1
    /\ (api /= NoResponse /\ (api.status_code >= 300 \/ api.status /= "SUCCEEDED")) =>
           /\ pc = "stopped"
           /\ shown = <<ERROR_MSG>>
           /\ Len(posted) = 1
           /\ data = <<>>
           /\ fig = NoFigure
           /\ futures = <<>>
           /\ storage = <<>>
           /\ exc = <<>>

\* C7 witness: a render stopped by the HTTP status 300.
C7_Witness ==
    /\ pc = "stopped"
    /\ api.status_code = 300
    /\ api.status = "SUCCEEDED"

\* C8: a render ended by an exception has put the generic message on the
\* page.
C8_GenericMessageOnCrash == pc = "crashed" => ERROR_MSG \in Range(shown)

\* A composed player whose photo was not an image and whose badge was.
FellBack(i) ==
    /\ i \in Composed
    /\ storage[futures[i].row.photo.stream] = "corrupt"
    /\ storage[futures[i].row.club_badge.stream] = "image"

\* C9: a composed player with an undecodable photo and a decodable badge
\* has exactly one image, the badge centred at the coordinate at 15%, and
\* one hit-target; the exception of the render, if any, is not from this
\* player; every other composed player whose two assets decode keeps the
\* photo and the badge of the try block.
C9_EmblemOnlyFallback ==
    \A i \in DOMAIN futures :
        FellBack(i) =>
            LET row == futures[i].row
            IN  /\ Cardinality(ImagesFrom(UrlsOf(i))) = 1
                /\ \A k \in ImagesFrom(UrlsOf(i)) :
                     fig.images[k] =
                       LayoutImage(row.club_badge.stream, "x", row.x, row.y,
                                   150, "center", "middle", "above", "contain")
                /\ Cardinality(TracesAt(row.x, row.y)) = 1
                /\ Len(exc) = 2 => exc[2] \notin UrlsOf(i)
                /\ \A j \in Composed \ {i} :
                     LET other == futures[j].row
                     IN  (\A u \in UrlsOf(j) : storage[u] = "image") =>
                            {fig.images[k] : k \in ImagesFrom(UrlsOf(j))} =
                              {LayoutImage(other.photo.stream, "x", other.x,
                                           other.y, 150, "center", "middle",
                                           "above", "contain"),
                               LayoutImage(other.club_badge.stream, "x",
                                           other.x + 10, other.y - 15, 75,
                                           "left", "top", "above", "contain")}

\* C9 witness: a player composed with the badge alone after a player
\* composed with photo and badge.
C9_Witness ==
    \E i, j \in Composed :
        /\ FellBack(i)
        /\ i /= j
        /\ \A u \in UrlsOf(j) : storage[u] = "image"
        /\ \E a \in ImagesFrom(UrlsOf(j)), b \in ImagesFrom(UrlsOf(i)) : a < b

\* C10: the figure that is shown has the pitch as its one background
\* image and, for every row of the response, one hit-target and one or two
\* images; it has no other image or hit-target.
C10_SceneComplete ==
    ChartShown =>
        /\ {k \in DOMAIN fig.images : fig.images[k].layer = "below"} = {1}
        /\ fig.images[1] = Background
        /\ {data[i].id : i \in DOMAIN data} = {Input[i].id : i \in DOMAIN Input}
        /\ Len(data) = Len(Input)
        /\ \A i \in DOMAIN data :
             /\ Cardinality(TracesAt(data[i].x, data[i].y)) = 1
             /\ \A k \in TracesAt(data[i].x, data[i].y) :
                  fig.traces[k].text = data[i].name
             /\ Cardinality(ImagesFrom({data[i].photo, data[i].club_badge}))
                  \in {1, 2}
        /\ Len(fig.traces) = Len(data)
        /\ DOMAIN fig.images =
             {1} \cup UNION {ImagesFrom({data[i].photo, data[i].club_badge}) :
                               i \in DOMAIN data}

\* C10 witness: a figure shown with a player of one image and a player of
\* two.
C10_Witness ==
    /\ ChartShown
    /\ \E i, j \in DOMAIN data :
         /\ Cardinality(ImagesFrom({data[i].photo, data[i].club_badge})) = 1
         /\ Cardinality(ImagesFrom({data[j].photo, data[j].club_badge})) = 2

\* C11: with captain=True the rows marked captain are exactly those whose
\* points are the largest of the whole frame, players and bench together;
\* their number is the number of rows tied there; a captain's name is the
\* name received with one "(C) " before it and every other name is the name
\* received.
C11_CaptainsAreLineupMaximum ==
    (pc = "figure" /\ game = "cartola") =>
        LET top == {i \in DOMAIN Input :
                      \A j \in DOMAIN Input : Input[j].points <= Input[i].points}
        IN  /\ DOMAIN data = DOMAIN Input
            /\ \A i \in DOMAIN data :
                 /\ data[i].id = Input[i].id
                 /\ data[i].captain = (i \in top)
                 /\ data[i].name = IF i \in top THEN "(C) " \o Input[i].name
                                                ELSE Input[i].name
            /\ Cardinality({i \in DOMAIN data : data[i].captain}) = Cardinality(top)

\* C11 witness: two captains tied at the maximum, one of them on the bench
\* above the points of a row of the formation.
C11_Witness ==
    /\ pc = "figure"
    /\ game = "cartola"
    /\ \E i, j, k \in DOMAIN data :
         /\ i /= j
         /\ data[i].captain /\ data[j].captain /\ ~data[k].captain
         /\ data[i].type = "bench"
         /\ data[k].type = "players"
         /\ data[j].type = "players"

\* C12 as stated: the key of every row of the first collection of the
\* response starts with "starters".
C12_StartersLabel ==
    pc = "figure" =>
        \A i \in 1..Len(api.output.players) : data[i].plot[1] = "starters"

\* The line up of the example: midfielders 101, 102, 103 of the first
\* collection with 5, 9 and 5 points.
ExampleLineUp ==
    /\ Len(api.output.players) = 3
    /\ Len(api.output.bench) = 0
    /\ {api.output.players[i].id : i \in 1..3} = {101, 102, 103}
    /\ \A i \in 1..3 : api.output.players[i].position = "midfielder"
    /\ \A i \in 1..3 :
         api.output.players[i].points =
            IF api.output.players[i].id = 102 THEN 9 ELSE 5

\* C12 amended: the key of a row is (type, position, rank) where the type
\* of a row of the collection "players" is "players" and of a row of the
\* collection "bench" is "bench", and the rank follows the ids; in the
\* example 101, 102 and 103 get players-midfielder-1, -2 and -3 and with
\* captain=True only 102 is captain.
C12_PlayersLabel ==
    pc = "figure" =>
        /\ \A i \in DOMAIN data :
             data[i].plot =
               <<IF i <= Len(api.output.players) THEN "players" ELSE "bench",
                 Input[i].position,
                 1 + Cardinality({j \in GroupOf(Input, i) :
                                    Input[j].id < Input[i].id})>>
        /\ ExampleLineUp =>
             \A i \in DOMAIN data :
                /\ data[i].plot = <<"players", "midfielder", data[i].id - 100>>
                /\ game = "cartola" => (data[i].captain <=> data[i].id = 102)

\* C12 witness: the example laid out with captain=True, its rows received
\* against the order of the ids.
C12_Witness ==
    /\ pc = "figure"
    /\ game = "cartola"
    /\ ExampleLineUp
    /\ data[1].id = 103
    /\ data[1].plot = <<"players", "midfielder", 3>>
    /\ ~data[1].captain

\* What the storage answered for the URL u (nothing: it was not asked).
Answered(u) == IF u \in DOMAIN storage THEN storage[u] ELSE "not asked"

\* C13: for fixed players and fixed asset sources the result of every fetch
\* task is the same with a pool of one worker and with a pool of five, under
\* every scheduling: the result of a finished task is determined by the row
\* of its player and by what the sources answer for the two URLs of that
\* row (the photo first, the badge only after the photo was served), and by
\* nothing else.
C13_ResultsIndependentOfPool ==
    \A i \in Finished :
        LET row == data[i]
            f == futures[i]
        IN  CASE Answered(row.photo) = "unreachable" ->
                   /\ f.raised /\ f.url = row.photo
                   /\ Answered(row.club_badge) = "not asked"
              [] Answered(row.photo) = "served"
                 /\ Answered(row.club_badge) = "unreachable" ->
                   f.raised /\ f.url = row.club_badge
              [] Answered(row.photo) = "served"
                 /\ Answered(row.club_badge) = "served" ->
                   /\ ~f.raised
                   /\ f.row.photo.stream = row.photo
                   /\ f.row.club_badge.stream = row.club_badge
              [] OTHER -> FALSE

\* A pool of one worker has run the tasks of several players, one of them
\* with an unreachable source.
C13_Witness ==
    /\ max_workers = 1
    /\ Len(futures) >= 2
    /\ Finished = DOMAIN futures
    /\ \E i, j \in Finished : futures[i].raised /\ ~futures[j].raised

\* The fields of the row of future i that its task has written, and the
\* sessions the downloads of the task were asked on.
WrittenBy(i) == {k \in DOMAIN data[i] : futures[i].row[k] /= data[i][k]}
SessionsOf(i) == {futures[i].row[k].session : k \in WrittenBy(i)}

\* C14: the fetch tasks are isolated from one another.  A row is written by
\* its own task alone (it is the row of the data frame until that task has
\* run), the task writes only the photo and the badge of the row, each with
\* the stream of the row's own URL, all the downloads of a task go through
\* one session, and no session is used by two tasks.
C14_TasksIsolated ==
    /\ \A i \in DOMAIN futures :
          /\ DOMAIN futures[i].row = DOMAIN data[i]
          /\ futures[i].state /= "finished" => futures[i].row = data[i]
          /\ WrittenBy(i) \subseteq {"photo", "club_badge"}
          /\ \A k \in WrittenBy(i) : futures[i].row[k].stream = data[i][k]
          /\ Cardinality(SessionsOf(i)) <= 1
    /\ \A i, j \in DOMAIN futures :
          i /= j => SessionsOf(i) \cap SessionsOf(j) = {}

\* One task has written both fields, another only the photo before its
\* badge failed, while a third is still running.
C14_Witness ==
    \E i, j, k \in DOMAIN futures :
        /\ WrittenBy(i) = {"photo", "club_badge"}
        /\ WrittenBy(j) = {"photo"} /\ futures[j].raised
        /\ futures[k].state = "running"

\* C15 as claimed: at every moment at most five fetch tasks are executing,
\* a task is started only when a worker is free, and every submitted task
\* is eventually started.
C15_EveryTaskStarted ==
    /\ [](Cardinality(Running) <= PoolSize)
    /\ [][Pending' /= Pending => Cardinality(Running) < PoolSize]_vars
    /\ (Pending /= {}) ~> (Pending = {})

\* C15 as the program has it: at most five fetch tasks are executing, a
\* task is started only when a worker is free, and every submitted task is
\* eventually started provided the tasks that hold the workers come to an
\* end.
C15_StartedWhenWorkersReturn ==
    /\ [](Cardinality(Running) <= PoolSize)
    /\ [][Pending' /= Pending => Cardinality(Running) < PoolSize]_vars
    /\ <>[](Running = {}) => ((Pending /= {}) ~> (Pending = {}))

\* Five tasks hold the five workers and a sixth waits.
C15_Witness == Cardinality(Running) = PoolSize /\ Pending /= {}

\* Every asset the storage has answered for is reachable and decodable.
AssetsGood == \A u \in DOMAIN storage : storage[u] \in {"served", "image"}
\* The render is over with a scene or with the failure of the fetch phase.
Over == pc = "done" \/ (pc = "crashed" /\ futures /= <<>>)

\* C16: when the request has succeeded and every plot key is in the table,
\* and every fetch task comes to an end with reachable, decodable assets,
\* the render eventually shows the scene with a hit-target for every
\* player.  Conversely the render neither shows a scene nor fails while a
\* fetch task has not come to an end: nothing bounds the wait.
C16_DisplaysUnlessATaskHangs ==
    /\ (<>[](Running = {}) /\ []AssetsGood) =>
          ((Succeeded /\ pc = "transform_data" /\ MissingKeys(Ranked(data)) = {})
             ~> (pc = "done" /\ ChartShown /\ Len(fig.traces) = Len(data)))
    /\ [](Over => Finished = DOMAIN futures)

\* The scene of a full line up is shown.
C16_Witness ==
    /\ pc = "done" /\ ChartShown
    /\ Len(data) = MaxPlayers /\ Len(fig.traces) = Len(data)

BadEmblem ==
    {i \in Composed : storage[futures[i].row.club_badge.stream] = "corrupt"}

\* C18: a badge that does not decode ends the render whether or not the
\* photo decodes: the decode error leaves add_player_image and the main
\* routine, the player has no hit-target and the figure is never shown;
\* when the photo decodes, its overlay is the last image of the figure,
\* added before the error, and when it does not, the player has no image.
C18_BadEmblemIsFatal ==
    \A i \in BadEmblem :
        LET row == futures[i].row
        IN  /\ pc \in {"unwinding", "crashed"}
            /\ exc = <<"UnidentifiedImageError", row.club_badge.stream>>
            /\ TracesAt(row.x, row.y) = {}
            /\ ~ChartShown
            /\ IF storage[row.photo.stream] = "image"
               THEN /\ ImagesFrom(UrlsOf(i)) = {Len(fig.images)}
                    /\ fig.images[Len(fig.images)] =
                         LayoutImage(row.photo.stream, "x", row.x, row.y, 150,
                                     "center", "middle", "above", "contain")
               ELSE ImagesFrom(UrlsOf(i)) = {}

\* The render has ended on the badge of a player whose photo is in the
\* figure, after another player was composed in full.
C18_Witness ==
    \E i \in BadEmblem :
        /\ pc = "crashed"
        /\ storage[futures[i].row.photo.stream] = "image"
        /\ ImagesFrom(UrlsOf(i)) /= {}
        /\ Len(fig.traces) >= 1

====
